---- MODULE Spec2Model ----
(***************************************************************************)
(* A model of pintarray (src/pintarray/pintarray.py): unit-carrying        *)
(* arrays whose arithmetic, comparison and conversion operators are routed *)
(* through the unit rules of PintArray._add_sub, PintArray._mul_div,       *)
(* PintArray.compare and data_array_to_units.                              *)
(*                                                                         *)
(* Abstractions.                                                           *)
(*  - An array is its buffer (one float, modelled as an exact fraction    *)
(*    [n, d]; d = 0 is the non-finite value a division by zero leaves)     *)
(*    and the value of attrs['units'].                                     *)
(*    attrs['units'] is modelled by the unit decomposition it denotes     *)
(*    (unit name -> exponent).  The rendering of a decomposition to text   *)
(*    and its parsing back are the registry's and are not distinguished    *)
(*    here; nor is the units container that _mul_div stores in             *)
(*    attrs['units'] (lines 267, 284) distinguished from its text.         *)
(*  - Buffers are floating point: the in-place conversion of an integer    *)
(*    buffer is outside the model.                                         *)
(*  - The registry (pint) is modelled by what it answers for the unit      *)
(*    names of Names: multiplicativity, root unit, scale and offset.       *)
(*  - What depends on the interpreter or the registry release (whether     *)
(*    operator.idiv exists, whether the registry's units container has a   *)
(*    `reference` attribute) is a nondeterministic choice.                 *)
(***************************************************************************)
EXTENDS Integers, Sequences, FiniteSets, TLC

\* --------------------------------------------------------------- bounds
\* Buffers of constructed arrays are 1 .. MaxMag.
MaxMag == 2
\* In-place operations a behaviour performs on the receiver.
MaxInplace == 1
\* Frames the interpreter allows before it raises RecursionError.
RecursionLimit == 3

\* ------------------------------------------------------------ rationals
\* A buffer value is a fraction n/d with d >= 0; equal values are told by
\* REq.  d = 0 is the non-finite value a division by zero leaves.
NonFinite == [n |-> 0, d |-> 0]

Rat(k) == [n |-> k, d |-> 1]

\* Denominators are products of the registry's factors (20, 100, 1000), so
\* a fraction is reduced by its common factors of the form 2^i * 5^j.
Scales == {(2 ^ i) * (5 ^ j) : i, j \in 0 .. 6}

Common(n, d) ==
    CHOOSE g \in Scales :
        /\ n % g = 0 /\ d % g = 0
        /\ \A h \in Scales : (n % h = 0 /\ d % h = 0) => h <= g

Reduce(n, d, g) == [n |-> n \div g, d |-> d \div g]

Frac(n, d) ==
    IF d = 0 THEN NonFinite
    ELSE IF d < 0 THEN Reduce(-n, -d, Common(-n, -d))
    ELSE Reduce(n, d, Common(n, d))

RPlus(x, y) == Frac(x.n * y.d + y.n * x.d, x.d * y.d)

RNeg(x) == [n |-> -x.n, d |-> x.d]

RMinus(x, y) == Frac(x.n * y.d - y.n * x.d, x.d * y.d)

RTimes(x, y) == Frac(x.n * y.n, x.d * y.d)

RDivide(x, y) == Frac(x.n * y.d, x.d * y.n)

REq(x, y) == x.d # 0 /\ y.d # 0 /\ x.n * y.d = y.n * x.d

\* ------------------------------------------------------------- registry
\* The unit names the model's registry knows.
Names == {"meter", "kilometer", "second", "kelvin", "degC", "delta_degC", "percent"}

\* The unit strings arrays are constructed with and converted to.
UnitStrings == {""} \cup Names

\* A unit string the registry does not know.
Undefined == "furlongs_per_blink"

TargetStrings == UnitStrings \cup {Undefined}

Dimless == [u \in Names |-> 0]

Single(name) == [u \in Names |-> IF u = name THEN 1 ELSE 0]

\* unit_registry(s)._units for a unit string the registry knows.
Parse(s) == IF s = "" THEN Dimless ELSE Single(s)

IsDefined(s) == s \in UnitStrings

Keys(units) == {u \in Names : units[u] # 0}

\* unit_registry._units[u].is_multiplicative
IsMultiplicative(u) == u # "degC"

\* The root unit of a unit name ("" for a unit that reduces to a number).
RootOf(u) ==
    CASE u \in {"meter", "kilometer"} -> "meter"
      [] u \in {"kelvin", "degC", "delta_degC"} -> "kelvin"
      [] u = "second" -> "second"
      [] OTHER -> ""

\* The offset of degC against kelvin, 273.15.
OffsetOf(u) == IF u = "degC" THEN [n |-> 5463, d |-> 20] ELSE Rat(0)

\* unit_registry.get_root_units(units)[1]
RootUnits(units) ==
    [r \in Names |->
        CASE r = "meter" -> units["meter"] + units["kilometer"]
          [] r = "kelvin" ->
                units["kelvin"] + units["degC"] + units["delta_degC"]
          [] r = "second" -> units["second"]
          [] OTHER -> 0]

\* unit_registry.get_base_units(units)[1]: the default system's base units
\* are the root units of every name of Names.
BaseUnits(units) == RootUnits(units)

\* unit_registry.get_dimensionality(units): one base dimension per root unit.
Dimensionality(units) == RootUnits(units)

Pos(e) == IF e > 0 THEN e ELSE 0

\* unit_registry.get_root_units(units)[0]: the factor to the root units,
\* 1000 per kilometer and 1/100 per percent; every other name of Names has
\* factor 1.
Factor(units) ==
    LET k == units["kilometer"]
        p == units["percent"]
    IN  [n |-> (1000 ^ Pos(k)) * (100 ^ Pos(-p)),
         d |-> (1000 ^ Pos(-k)) * (100 ^ Pos(p))]

NonMul(units) == {u \in Keys(units) : ~IsMultiplicative(u)}

Deltas(units) == {u \in Keys(units) : u \in {"delta_degC"}}

TheOne(S) == CHOOSE x \in S : TRUE

\* The registry's check of an operand of convert: at most one offset unit,
\* alone and with exponent 1.
OffsetFormOk(units) ==
    \/ NonMul(units) = {}
    \/ /\ Cardinality(NonMul(units)) = 1
       /\ Cardinality(Keys(units)) = 1
       /\ units[TheOne(NonMul(units))] = 1

\* unit_registry.convert(value, src, dst): [ok, val]; ok = FALSE is
\* DimensionalityError, raised before the buffer is touched.
Convert(val, src, dst) ==
    IF ~OffsetFormOk(src) \/ ~OffsetFormOk(dst)
       \/ Dimensionality(src) # Dimensionality(dst)
    THEN [ok |-> FALSE, val |-> val]
    ELSE LET ref == IF NonMul(src) # {}
                    THEN RPlus(val, OffsetOf(TheOne(NonMul(src))))
                    ELSE RTimes(val, Factor(src))
             out == IF NonMul(dst) # {}
                    THEN RMinus(ref, OffsetOf(TheOne(NonMul(dst))))
                    ELSE RDivide(ref, Factor(dst))
         IN  [ok |-> TRUE, val |-> out]

\* --------------------------------------------------------------- arrays
\* An array: its buffer and the decomposition of attrs['units'].
Arr(v, units) == [val |-> v, units |-> units]

\* Quantity(object, units)
Quantity(k, s) == Arr(Rat(k), Parse(s))

NoArr == Arr(NonFinite, Dimless)

\* The magnitude operators the dunder methods hand to _add_sub and _mul_div,
\* and the functions of the operator module the rules compare them with.
DataArrayAdd == "DataArray.__add__"
DataArraySub == "DataArray.__sub__"
DataArrayIAdd == "DataArray.__iadd__"
DataArrayISub == "DataArray.__isub__"
DataArrayMul == "DataArray.__mul__"
DataArrayIMul == "DataArray.__imul__"
DataArrayTrueDiv == "DataArray.__truediv__"
DataArrayITrueDiv == "DataArray.__itruediv__"
OperatorSub == "operator.sub"
OperatorMul == "operator.mul"
OperatorIMul == "operator.imul"
OperatorIDiv == "operator.idiv"
OperatorTrueDiv == "operator.truediv"

\* xarray's in-place operators write the left operand's buffer and return it.
InPlace(op) ==
    op \in {DataArrayIAdd, DataArrayISub, DataArrayIMul, DataArrayITrueDiv}

\* The numeric operation of a magnitude operator on two buffers.
Num(op, x, y) ==
    CASE op \in {DataArrayAdd, DataArrayIAdd} -> RPlus(x, y)
      [] op \in {DataArraySub, DataArrayISub} -> RMinus(x, y)
      [] op \in {DataArrayMul, DataArrayIMul} -> RTimes(x, y)
      [] OTHER -> RDivide(x, y)

\* units_op on two decompositions.
UnitsOp(uop, x, y) ==
    IF uop = OperatorMul THEN [u \in Names |-> x[u] + y[u]]
    ELSE [u \in Names |-> x[u] - y[u]]

\* What a call leaves: its outcome ("ok" or the exception), the array it
\* returns, whether that is the receiver object ("self") or a new one, and
\* the receiver's and the operand's state after the call.
Raise(exc, s, o) ==
    [out |-> exc, res |-> NoArr, resIs |-> "none", self |-> s, other |-> o]

Return(arr, is, s, o) ==
    [out |-> "ok", res |-> arr, resIs |-> is, self |-> s, other |-> o]

Returned(op, leftIsSelf, s, o, arr) ==
    IF InPlace(op) /\ leftIsSelf THEN Return(arr, "self", arr, o)
    ELSE Return(arr, "new", s, o)

\* array = op(left, right); array.attrs['units'] = units.  left is the
\* receiver (leftIsSelf) or a temporary.
Finish(op, left, leftIsSelf, s, o, rightVal, units) ==
    Returned(op, leftIsSelf, s, o, Arr(Num(op, left.val, rightVal), units))

Unconverted(arr) == [out |-> "ok", arr |-> arr, same |-> TRUE, src |-> arr]

\* Lines 64-72 of data_array_to_units, c being what unit_registry.convert
\* did: the copy (or value itself, in place) holds the converted buffer
\* and the new unit.
AfterConvert(value, to, inplace, c) ==
    IF ~c.ok
    THEN [out |-> "DimensionalityError", arr |-> value, same |-> FALSE,
          src |-> value]
    ELSE [out |-> "ok", arr |-> Arr(c.val, to), same |-> inplace,
          src |-> IF inplace THEN Arr(c.val, to) ELSE value]

\* data_array_to_units converting the array it is given whatever inplace
\* says.
DataArrayToUnitsOnValue(value, to, inplace) ==
    IF value.units = to THEN Unconverted(value)
    ELSE AfterConvert(value, to, TRUE, Convert(value.val, value.units, to))

\* data_array_to_units(value, to_units, inplace): the array returned, whether
\* it is the object passed in, and that object's state afterwards.
DataArrayToUnits(value, to, inplace) ==
    IF value.units = to THEN Unconverted(value)
    ELSE AfterConvert(value, to, inplace,
                      Convert(value.val, value.units, to))

\* to_units without its except clause.
Untranslated(r) == r

\* The except clause of PintArray.to_units.
Translated(r) ==
    IF r.out = "DimensionalityError" THEN [r EXCEPT !.out = "ValueError"]
    ELSE r

\* PintArray.to_units with the target already parsed.
ToUnits(s, to, inplace) == Translated(DataArrayToUnits(s, to, inplace))

\* PintArray.to_units(units, inplace) for a unit string: the registry parses
\* the target first (data_array_to_units, line 62).
ToUnitsStr(s, str, inplace) ==
    IF ~IsDefined(str)
    THEN [out |-> "UndefinedUnitError", arr |-> s, same |-> FALSE, src |-> s]
    ELSE ToUnits(s, Parse(str), inplace)

\* is_dimensionless(pint_array)
IsDimensionless(s) == Dimensionality(s.units) = Dimless

\* 'delta_' + unit
DeltaOf(u) == IF u = "degC" THEN "delta_degC" ELSE "delta_"

\* has_compatible_delta(pint_array, unit): "T", "F", or "E" when line 103
\* reads `reference` off a units container that has no such attribute
\* (hasRef = FALSE).
HasCompatibleDelta(arr, unit, hasRef) ==
    IF DeltaOf(unit) \in Deltas(arr.units) THEN "T"
    ELSE IF ~hasRef THEN "E"
    ELSE IF \E d \in Deltas(arr.units) : RootOf(d) = RootOf(unit) THEN "T"
    ELSE "F"

\* UnitsContainer.rename(old, new)
Rename(units, old, new) ==
    [u \in Names |-> IF u = old THEN 0
                     ELSE IF u = new THEN units[new] + units[old]
                     ELSE units[u]]

\* op(self, c) for c = data_array_to_units(other, ...); the result's unit
\* is resUnits.
OpOnConvertedOther(s, op, resUnits, c) ==
    IF c.out # "ok" THEN Raise(c.out, s, c.src)
    ELSE Finish(op, s, TRUE, s, c.src, c.arr.val, resUnits)

\* op(t, other) for t = self.to(...); the result's unit is resUnits.
OpOnConvertedSelf(o, op, rightVal, resUnits, t) ==
    IF t.out # "ok" THEN Raise(t.out, t.src, o)
    ELSE Finish(op, t.arr, t.same, t.src, o, rightVal, resUnits)

\* What a branch of _add_sub does: raise exc, or convert one operand
\* ("self": self.to(to); "other": data_array_to_units(other, to); "none")
\* and stamp the result of op with units.
Plan(exc, conv, to, units) ==
    [exc |-> exc, conv |-> conv, to |-> to, units |-> units]

Fail(exc) == Plan(exc, "none", Dimless, Dimless)

\* Lines 190-198 and 204-205: op(self, other) when the units are equal,
\* else op(self, data_array_to_units(other, self._units)), which returns
\* other itself when the units are equal.
OtherToSelf(s, o) ==
    IF s.units = o.units THEN Plan("none", "none", s.units, s.units)
    ELSE Plan("none", "other", s.units, s.units)

\* PintArray._add_sub, lines 168-224: the branch taken for operands of one
\* dimensionality.
AddSubRule(s, o, op, hasRef) ==
    LET snm == NonMul(s.units)
        onm == NonMul(o.units)
        selfOne == Cardinality(snm) = 1 /\ s.units[TheOne(snm)] = 1
        otherOne == Cardinality(onm) = 1 /\ o.units[TheOne(onm)] = 1
        h4 == IF op = OperatorSub /\ selfOne
              THEN HasCompatibleDelta(o, TheOne(snm), hasRef) ELSE "skip"
        h5 == IF op = OperatorSub /\ otherOne
              THEN HasCompatibleDelta(s, TheOne(onm), hasRef) ELSE "skip"
        h6 == IF selfOne
              THEN HasCompatibleDelta(o, TheOne(snm), hasRef) ELSE "skip"
        h7 == IF otherOne
              THEN HasCompatibleDelta(s, TheOne(onm), hasRef) ELSE "skip"
    IN  IF snm = {} /\ onm = {}
        THEN IF s.units = o.units
             THEN Plan("none", "none", s.units, s.units)
             ELSE IF Deltas(s.units) # {} /\ Deltas(o.units) = {}
             THEN Plan("none", "self", o.units, o.units)
             ELSE Plan("none", "other", s.units, s.units)
        ELSE IF h4 = "E" THEN Fail("AttributeError")
        ELSE IF h4 = "F" THEN OtherToSelf(s, o)
        ELSE IF h5 = "E" THEN Fail("AttributeError")
        ELSE IF h5 = "F" THEN OtherToSelf(s, o)
        ELSE IF h6 = "E" THEN Fail("AttributeError")
        ELSE IF h6 = "T"
        THEN Plan("none", "other",
                  Rename(s.units, TheOne(snm), DeltaOf(TheOne(snm))), s.units)
        ELSE IF h7 = "E" THEN Fail("AttributeError")
        ELSE IF h7 = "T"
        THEN Plan("none", "self",
                  Rename(o.units, TheOne(onm), DeltaOf(TheOne(onm))), o.units)
        ELSE Fail("OffsetUnitCalculusError")

\* _add_sub going to its rules without the check of lines 161-166.
AddSubUnchecked(s, o, op, hasRef) == AddSubRule(s, o, op, hasRef)

\* PintArray._add_sub, lines 161-224: the check of the dimensionalities,
\* then the branch taken.
AddSubPlan(s, o, op, hasRef) ==
    IF Dimensionality(s.units) # Dimensionality(o.units)
    THEN Fail("DimensionalityError")
    ELSE AddSubRule(s, o, op, hasRef)

\* The array = op(...) line of the branch taken and the stamping of its unit.
RunPlan(s, o, op, p) ==
    IF p.exc # "none" THEN Raise(p.exc, s, o)
    ELSE IF p.conv = "self"
    THEN OpOnConvertedSelf(o, op, o.val, p.units, ToUnits(s, p.to, FALSE))
    ELSE IF p.conv = "other"
    THEN OpOnConvertedOther(s, op, p.units, DataArrayToUnits(o, p.to, FALSE))
    ELSE Finish(op, s, TRUE, s, o, o.val, p.units)

\* PintArray._add_sub, lines 160-224: other carries units.
AddSubArrays(s, o, op, hasRef) == RunPlan(s, o, op, AddSubPlan(s, o, op, hasRef))

\* PintArray._add_sub, lines 225-232: other is a plain number k.
AddSubNumber(s, k, op) ==
    IF k = 0 THEN Finish(op, s, TRUE, s, NoArr, Rat(0), Dimless)
    ELSE IF IsDimensionless(s)
    THEN OpOnConvertedSelf(NoArr, op, Rat(k), Dimless,
                           ToUnits(s, Dimless, FALSE))
    ELSE Raise("DimensionalityError", s, NoArr)

\* ok_for_muldiv(pint_array); autoconv is
\* unit_registry.autoconvert_offset_to_baseunit.
OkForMulDiv(arr, autoconv) ==
    LET numOffset == Cardinality(NonMul(arr.units))
        numFactors == Cardinality(Keys(arr.units))
    IN  IF numOffset > 1 THEN FALSE
        ELSE IF numOffset = 1
        THEN IF numFactors > 1 THEN FALSE
             ELSE IF numFactors = 1 /\ ~autoconv THEN FALSE
             ELSE IF arr.units[TheOne(Keys(arr.units))] # 1 THEN FALSE
             ELSE TRUE
        ELSE TRUE

\* len(get_non_multiplicative_units(x)) == 1 and len(get_units(x)) == 1
SingleOffsetUnit(arr) ==
    Cardinality(NonMul(arr.units)) = 1 /\ Cardinality(Keys(arr.units)) = 1

\* Lines 262-268 for new_self = ns and other = no, both as converted.
MulDivFinish(mop, uop, ns, no) ==
    IF no.out # "ok" THEN Raise(no.out, ns.src, no.src)
    ELSE Finish(mop, ns.arr, ns.same, ns.src, no.src, no.arr.val,
                UnitsOp(uop, ns.src.units, no.arr.units))

\* Lines 260-268 for new_self = ns.
MulDivOther(o, mop, uop, autoconv, ns) ==
    IF ns.out # "ok" THEN Raise(ns.out, ns.src, o)
    ELSE IF ~OkForMulDiv(o, autoconv)
    THEN Raise("OffsetUnitCalculusError", ns.src, o)
    ELSE MulDivFinish(mop, uop, ns,
             IF SingleOffsetUnit(o) THEN ToUnits(o, RootUnits(o.units), FALSE)
             ELSE Unconverted(o))

\* PintArray._mul_div, lines 245-268: other carries units.  hasIDiv: the
\* interpreter's operator module has idiv (Python 2); without it line 255
\* raises AttributeError.
MulDivArrays(s, o, mop, uop, autoconv, hasIDiv) ==
    IF ~OkForMulDiv(s, autoconv) THEN Raise("OffsetUnitCalculusError", s, o)
    ELSE IF SingleOffsetUnit(s) /\ ~hasIDiv THEN Raise("AttributeError", s, o)
    ELSE MulDivOther(o, mop, uop, autoconv,
             IF SingleOffsetUnit(s)
             THEN ToUnits(s, RootUnits(s.units),
                          mop \in {OperatorIMul, OperatorIDiv})
             ELSE Unconverted(s))

\* PintArray._mul_div, lines 269-286: other is a plain number k.
MulDivNumber(s, k, mop, uop, autoconv) ==
    IF ~OkForMulDiv(s, autoconv)
    THEN Raise("OffsetUnitCalculusError", s, NoArr)
    ELSE IF /\ Cardinality(NonMul(s.units)) = 1
            /\ \/ s.units[TheOne(NonMul(s.units))] # 1
               \/ mop \notin {OperatorMul, OperatorIMul}
    THEN Raise("OffsetUnitCalculusError", s, NoArr)
    ELSE Finish(mop, s, TRUE, s, NoArr, Rat(k),
                UnitsOp(uop, s.units, Dimless))

\* The operands of the op(...) call of a frame of compare, each as
\* converted (and whether it is the object the frame was given, and that
\* object's state afterwards), or the exception a conversion raised.
Operands(rs, ro) ==
    [out |-> IF rs.out # "ok" THEN rs.out ELSE ro.out,
     self |-> rs.arr, selfSame |-> rs.same, selfSrc |-> rs.src,
     other |-> ro.arr, otherSame |-> ro.same, otherSrc |-> ro.src]

NoOperands(exc, s, o) ==
    [out |-> exc, self |-> s, selfSame |-> TRUE, selfSrc |-> s,
     other |-> o, otherSame |-> TRUE, otherSrc |-> o]

\* One frame of PintArray.compare(other, op): the exception it raises, or
\* the operands of the op(...) call it makes, which is the comparison
\* method of its first operand again.
CompareFrame(s, otherIsArray, o) ==
    IF ~otherIsArray
    THEN IF IsDimensionless(s)
         THEN Operands(ToUnits(s, Dimless, FALSE), Unconverted(o))
         ELSE NoOperands("ValueError", s, o)
    ELSE IF s.units = o.units
    THEN Operands(Unconverted(s), Unconverted(o))
    ELSE IF Dimensionality(s.units) = Dimensionality(o.units)
    THEN Operands(ToUnits(s, RootUnits(s.units), FALSE),
                  ToUnits(o, RootUnits(o.units), FALSE))
    ELSE NoOperands("DimensionalityError", s, o)

\* ---------------------------------------------------------------- state
VARIABLES
    a,            \* the receiver array of every call
    b,            \* a second array, the operand of binary calls
    autoconvert,  \* unit_registry.autoconvert_offset_to_baseunit
    call,         \* the comparison or reflected division in progress
    last,         \* the last completed call (none while one is in progress)
    nInplace      \* in-place calls made so far

vars == <<a, b, autoconvert, call, last, nInplace>>

\* The plain numbers used as operands.
Numbers == {0, 2}

\* The registry units used as operands of * and /.
UnitLiterals == {"meter", "degC"}

Operand(kind, num, ustr) == [kind |-> kind, num |-> num, ustr |-> ustr]

ArrayOperands == {Operand("a", 0, ""), Operand("b", 0, "")}
NumberOperands == {Operand("num", k, "") : k \in Numbers}
UnitOperands == {Operand("unit", 0, u) : u \in UnitLiterals}

CompareOps == {"lt", "le", "ge", "gt", "eq", "ne"}

\* A call in progress: the function, the frames entered, the operands of
\* the frame on top (self, other) and which objects they are (selfIs,
\* otherIs: "a", "b", or "tmp" for a temporary or a number), the call's
\* operand and comparison operator, and a and b as the call found them.
NoCall ==
    [fn |-> "none", depth |-> 0, self |-> NoArr, other |-> NoArr,
     selfIs |-> "tmp", otherIs |-> "tmp",
     x |-> Operand("none", 0, ""), cop |-> "none",
     preA |-> NoArr, preB |-> NoArr]

\* A completed call: the method, its operand, a and b before it, its
\* outcome, the array returned and whether that is the receiver, and the
\* frames a recursive call entered.
NoLast ==
    [op |-> "none", x |-> Operand("none", 0, ""), cop |-> "none",
     preA |-> NoArr, preB |-> NoArr, out |-> "none", res |-> NoArr,
     resIs |-> "none", depth |-> 0]

Constructed == {Quantity(k, s) : k \in 1..MaxMag, s \in UnitStrings}

Init ==
    /\ a \in Constructed
    /\ b \in Constructed
    /\ autoconvert \in BOOLEAN
    /\ call = NoCall
    /\ last = NoLast
    /\ nInplace = 0

\* The array an operand denotes: a itself, b, or Quantity(1., str(unit)).
OperandArray(x) ==
    CASE x.kind = "a" -> a
      [] x.kind = "b" -> b
      [] x.kind = "unit" -> Quantity(1, x.ustr)
      [] OTHER -> NoArr

\* A call on receiver a with operand x returns with effect eff.
Complete(opname, x, eff) ==
    /\ a' = IF x.kind = "a" /\ eff.self = a THEN eff.other ELSE eff.self
    /\ b' = IF x.kind = "b" THEN eff.other ELSE b
    /\ last' = [NoLast EXCEPT !.op = opname, !.x = x, !.preA = a, !.preB = b,
                              !.out = eff.out, !.res = eff.res,
                              !.resIs = eff.resIs]
    /\ UNCHANGED <<autoconvert, call>>

Idle == call.fn = "none"

AddSub(x, op, hasRef) ==
    IF x.kind = "num" THEN AddSubNumber(a, x.num, op)
    ELSE AddSubArrays(a, OperandArray(x), op, hasRef)

MulDiv(x, mop, uop, hasIDiv) ==
    IF x.kind = "num" THEN MulDivNumber(a, x.num, mop, uop, autoconvert)
    ELSE MulDivArrays(a, OperandArray(x), mop, uop, autoconvert, hasIDiv)

\* -(array): the buffer negated.
Negated(eff) ==
    IF eff.out # "ok" THEN eff
    ELSE [eff EXCEPT !.res = Arr(RNeg(eff.res.val), eff.res.units),
                     !.resIs = "new"]

\* a + x
Add ==
    /\ Idle
    /\ \E x \in ArrayOperands \cup NumberOperands, hasRef \in BOOLEAN :
          Complete("__add__", x, AddSub(x, DataArrayAdd, hasRef))
    /\ UNCHANGED nInplace

\* k + a
RAdd ==
    /\ Idle
    /\ \E x \in NumberOperands :
          Complete("__radd__", x, AddSub(x, DataArrayAdd, TRUE))
    /\ UNCHANGED nInplace

\* a - x
Sub ==
    /\ Idle
    /\ \E x \in ArrayOperands \cup NumberOperands, hasRef \in BOOLEAN :
          Complete("__sub__", x, AddSub(x, DataArraySub, hasRef))
    /\ UNCHANGED nInplace

\* k - a
RSub ==
    /\ Idle
    /\ \E x \in NumberOperands :
          Complete("__rsub__", x, Negated(AddSub(x, DataArraySub, TRUE)))
    /\ UNCHANGED nInplace

\* a += x
IAdd ==
    /\ Idle
    /\ nInplace < MaxInplace
    /\ \E x \in ArrayOperands \cup NumberOperands, hasRef \in BOOLEAN :
          Complete("__iadd__", x, AddSub(x, DataArrayIAdd, hasRef))
    /\ nInplace' = nInplace + 1

\* a -= x
ISub ==
    /\ Idle
    /\ nInplace < MaxInplace
    /\ \E x \in ArrayOperands \cup NumberOperands, hasRef \in BOOLEAN :
          Complete("__isub__", x, AddSub(x, DataArrayISub, hasRef))
    /\ nInplace' = nInplace + 1

MulDivOperands == ArrayOperands \cup NumberOperands \cup UnitOperands

\* a * x
Mul ==
    /\ Idle
    /\ \E x \in MulDivOperands, hasIDiv \in BOOLEAN :
          Complete("__mul__", x, MulDiv(x, DataArrayMul, OperatorMul, hasIDiv))
    /\ UNCHANGED nInplace

\* k * a
RMul ==
    /\ Idle
    /\ \E x \in NumberOperands :
          Complete("__rmul__", x, MulDiv(x, DataArrayMul, OperatorMul, TRUE))
    /\ UNCHANGED nInplace

\* a *= x
IMul ==
    /\ Idle
    /\ nInplace < MaxInplace
    /\ \E x \in MulDivOperands, hasIDiv \in BOOLEAN :
          Complete("__imul__", x,
                   MulDiv(x, DataArrayIMul, OperatorMul, hasIDiv))
    /\ nInplace' = nInplace + 1

\* a / x
TrueDiv ==
    /\ Idle
    /\ \E x \in MulDivOperands, hasIDiv \in BOOLEAN :
          Complete("__truediv__", x,
                   MulDiv(x, DataArrayTrueDiv, OperatorTrueDiv, hasIDiv))
    /\ UNCHANGED nInplace

\* a /= x
ITrueDiv ==
    /\ Idle
    /\ nInplace < MaxInplace
    /\ \E x \in MulDivOperands, hasIDiv \in BOOLEAN :
          Complete("__itruediv__", x,
                   MulDiv(x, DataArrayITrueDiv, OperatorTrueDiv, hasIDiv))
    /\ nInplace' = nInplace + 1

\* What a conversion call leaves.
Converted(r) ==
    IF r.out # "ok" THEN Raise(r.out, r.src, NoArr)
    ELSE Return(r.arr, IF r.same THEN "self" ELSE "new", r.src, NoArr)

Target(t) == Operand("target", 0, t)

\* a.to(t)
To ==
    /\ Idle
    /\ \E t \in TargetStrings :
          Complete("to", Target(t), Converted(ToUnitsStr(a, t, FALSE)))
    /\ UNCHANGED nInplace

\* a.ito(t)
Ito ==
    /\ Idle
    /\ nInplace < MaxInplace
    /\ \E t \in TargetStrings :
          Complete("ito", Target(t), Converted(ToUnitsStr(a, t, TRUE)))
    /\ nInplace' = nInplace + 1

\* a.to_root_units()
ToRootUnits ==
    /\ Idle
    /\ Complete("to_root_units", Target(""),
                Converted(ToUnits(a, RootUnits(a.units), FALSE)))
    /\ UNCHANGED nInplace

\* a.ito_root_units()
ItoRootUnits ==
    /\ Idle
    /\ nInplace < MaxInplace
    /\ Complete("ito_root_units", Target(""),
                Converted(ToUnits(a, RootUnits(a.units), TRUE)))
    /\ nInplace' = nInplace + 1

\* a.to_base_units()
ToBaseUnits ==
    /\ Idle
    /\ Complete("to_base_units", Target(""),
                Converted(ToUnits(a, BaseUnits(a.units), FALSE)))
    /\ UNCHANGED nInplace

\* a.ito_base_units()
ItoBaseUnits ==
    /\ Idle
    /\ nInplace < MaxInplace
    /\ Complete("ito_base_units", Target(""),
                Converted(ToUnits(a, BaseUnits(a.units), TRUE)))
    /\ nInplace' = nInplace + 1

\* The call in progress ends with exception exc.
EndCall(opname, exc) ==
    /\ last' = [NoLast EXCEPT !.op = opname, !.x = call.x, !.cop = call.cop,
                              !.preA = call.preA, !.preB = call.preB,
                              !.out = exc, !.depth = call.depth]
    /\ call' = NoCall
    /\ UNCHANGED <<autoconvert, nInplace>>

\* The object a names after a frame whose operands were the objects selfIs
\* and otherIs and are left as selfSrc and otherSrc.
Left(obj, old, f) ==
    IF call.selfIs = obj /\ f.selfSrc # old THEN f.selfSrc
    ELSE IF call.otherIs = obj THEN f.otherSrc
    ELSE old

\* a < x, a <= x, a >= x, a > x, a == x, a != x: the lambdas of lines
\* 389-394 enter compare.
CompareCall ==
    /\ Idle
    /\ \E x \in ArrayOperands \cup NumberOperands, cop \in CompareOps :
          call' = [fn |-> "compare", depth |-> 1, self |-> a,
                   other |-> OperandArray(x), selfIs |-> "a",
                   otherIs |-> IF x.kind = "num" THEN "tmp" ELSE x.kind,
                   x |-> x, cop |-> cop, preA |-> a, preB |-> b]
    /\ last' = NoLast
    /\ UNCHANGED <<a, b, autoconvert, nInplace>>

\* The frame on top runs compare: it raises, or it evaluates op(s, o) with
\* op from the operator module, which calls type(s)'s comparison method and
\* so enters compare once more; a frame past the interpreter's limit is
\* RecursionError.
CompareStep ==
    /\ call.fn = "compare"
    /\ \E f \in {CompareFrame(call.self, call.x.kind # "num", call.other)} :
          /\ a' = Left("a", a, f)
          /\ b' = Left("b", b, f)
          /\ IF f.out # "ok" THEN EndCall("compare", f.out)
             ELSE IF call.depth >= RecursionLimit
             THEN EndCall("compare", "RecursionError")
             ELSE /\ call' = [call EXCEPT
                                !.depth = @ + 1,
                                !.self = f.self, !.other = f.other,
                                !.selfIs = IF f.selfSame THEN @ ELSE "tmp",
                                !.otherIs = IF f.otherSame THEN @ ELSE "tmp"]
                  /\ UNCHANGED <<autoconvert, last, nInplace>>

\* k / a: Python finds no division of a plain number by an array and calls
\* a.__rtruediv__(k) (__rdiv__ is the same function).
RTrueDivCall ==
    /\ Idle
    /\ \E x \in NumberOperands :
          call' = [fn |-> "rtruediv", depth |-> 1, self |-> a,
                   other |-> NoArr, selfIs |-> "a", otherIs |-> "tmp",
                   x |-> x, cop |-> "none", preA |-> a, preB |-> b]
    /\ last' = NoLast
    /\ UNCHANGED <<a, b, autoconvert, nInplace>>

\* The frame on top evaluates other * (1. / self): 1. / self is a plain
\* number divided by the array, which is self.__rtruediv__(1.) again.
RTrueDivStep ==
    /\ call.fn = "rtruediv"
    /\ UNCHANGED <<a, b>>
    /\ IF call.depth >= RecursionLimit
       THEN EndCall("__rtruediv__", "RecursionError")
       ELSE /\ call' = [call EXCEPT !.depth = @ + 1,
                                    !.x = Operand("num", 1, "")]
            /\ UNCHANGED <<autoconvert, last, nInplace>>

\* ------------------------------------------------------- specifications
NextAddSub == Add \/ RAdd \/ Sub \/ RSub \/ IAdd \/ ISub

NextMulDiv == Mul \/ RMul \/ IMul \/ TrueDiv \/ ITrueDiv

NextConvert ==
    To \/ Ito \/ ToRootUnits \/ ItoRootUnits \/ ToBaseUnits \/ ItoBaseUnits

NextCompare == CompareCall \/ CompareStep

NextRTrueDiv == RTrueDivCall \/ RTrueDivStep

NextInplace == IAdd \/ ISub \/ IMul \/ ITrueDiv \/ Ito \/ ItoRootUnits \/ ItoBaseUnits

NextCopy ==
    \/ Add \/ RAdd \/ Sub \/ RSub
    \/ Mul \/ RMul \/ TrueDiv
    \/ RTrueDivCall \/ RTrueDivStep
    \/ CompareCall \/ CompareStep
    \/ To \/ ToRootUnits \/ ToBaseUnits

Next ==
    \/ Add \/ RAdd \/ Sub \/ RSub \/ IAdd \/ ISub
    \/ Mul \/ RMul \/ IMul \/ TrueDiv \/ ITrueDiv
    \/ RTrueDivCall \/ RTrueDivStep
    \/ CompareCall \/ CompareStep
    \/ To \/ Ito \/ ToRootUnits \/ ItoRootUnits \/ ToBaseUnits \/ ItoBaseUnits

Spec == Init /\ [][Next]_vars
SpecAddSub == Init /\ [][NextAddSub]_vars
SpecMulDiv == Init /\ [][NextMulDiv]_vars
SpecConvert == Init /\ [][NextConvert]_vars
SpecCompare == Init /\ [][NextCompare]_vars
SpecRTrueDiv == Init /\ [][NextRTrueDiv]_vars
SpecInplace == Init /\ [][NextInplace]_vars
SpecCopy == Init /\ [][NextCopy]_vars

\* --------------------------------------------------------------- claims
\* The array the last call's operand was when the call began.
LastOperand ==
    CASE last.x.kind = "a" -> last.preA
      [] last.x.kind = "b" -> last.preB
      [] last.x.kind = "unit" -> Quantity(1, last.x.ustr)
      [] OTHER -> NoArr

\* The decomposition of an operand of * or / as the rule feeds it to the
\* numeric operation: the root units of a single offset unit of exponent 1.
Reduced(units) ==
    IF /\ Cardinality(NonMul(units)) = 1
       /\ Cardinality(Keys(units)) = 1
       /\ units[TheOne(NonMul(units))] = 1
    THEN RootUnits(units)
    ELSE units

\* C1: a subtraction L - R of two arrays of equal dimensionality, L with
\* exactly one offset component of exponent 1 and R with no delta unit
\* compatible with it, succeeds: the result carries L's unit and holds L's
\* buffer minus R's buffer converted to L's unit (degC - degC gives degC).
SubtractionOfOffsetUnits ==
    (/\ last.op = "__sub__"
     /\ last.x.kind \in {"a", "b"}
     /\ Dimensionality(last.preA.units) = Dimensionality(LastOperand.units)
     /\ Cardinality(NonMul(last.preA.units)) = 1
     /\ last.preA.units[TheOne(NonMul(last.preA.units))] = 1
     /\ \A d \in Deltas(LastOperand.units) :
           RootOf(d) # RootOf(TheOne(NonMul(last.preA.units))))
    => /\ last.out = "ok"
       /\ last.res.units = last.preA.units
       /\ REq(last.res.val,
              RMinus(last.preA.val,
                     Convert(LastOperand.val, LastOperand.units,
                             last.preA.units).val))

\* C2: an array whose unit is a single offset unit, multiplied by a plain
\* number, raises OffsetUnitCalculusError unless the registry's
\* autoconvert_offset_to_baseunit flag is set and the exponent is 1, and
\* then the product succeeds in root units; divided by a plain number it is
\* always rejected.
ScalarTimesOffsetUnit ==
    (/\ last.op \in {"__mul__", "__rmul__", "__imul__", "__truediv__",
                     "__itruediv__"}
     /\ last.x.kind = "num"
     /\ SingleOffsetUnit(last.preA))
    => IF /\ last.op \in {"__mul__", "__rmul__", "__imul__"}
          /\ autoconvert
          /\ last.preA.units[TheOne(NonMul(last.preA.units))] = 1
       THEN /\ last.out = "ok"
            /\ last.res.units = RootUnits(last.preA.units)
       ELSE last.out = "OffsetUnitCalculusError"

\* C3: the unit of a successful * or / of two unit-carrying operands is the
\* product or quotient of the decompositions fed to the numeric operation:
\* the root units, not the offset unit, of an operand that was reduced, on
\* the left as on the right.
ResultUnitNotStale ==
    (/\ last.op \in {"__mul__", "__imul__", "__truediv__", "__itruediv__"}
     /\ last.x.kind \in {"a", "b", "unit"}
     /\ last.out = "ok")
    => last.res.units =
          UnitsOp(IF last.op \in {"__mul__", "__imul__"}
                  THEN OperatorMul ELSE OperatorTrueDiv,
                  Reduced(last.preA.units), Reduced(LastOperand.units))

\* C4: an in-place operator (+=, -=, *=, /=) that succeeds returns the
\* receiver itself, and the receiver then holds the numeric result and the
\* result unit.
InPlaceMutatesReceiver ==
    (/\ last.op \in {"__iadd__", "__isub__", "__imul__", "__itruediv__"}
     /\ last.out = "ok")
    => /\ last.resIs = "self"
       /\ a = last.res

\* C5: no step of a copying operation (+, -, *, / and their reflected forms,
\* the comparisons, to, to_root_units, to_base_units) changes the buffer or
\* the unit of either operand, whether the operation succeeds or raises.
CopyingKeepsOperands == [][a' = a /\ b' = b]_vars

\* A sum a + b has succeeded after converting a copy of b to a's unit.
CopyConvertedOperand ==
    /\ last.op = "__add__"
    /\ last.x.kind = "b"
    /\ last.out = "ok"
    /\ last.preB.units # last.preA.units
    /\ ~REq(last.res.val, RPlus(last.preA.val, last.preB.val))
    /\ a = last.preA
    /\ b = last.preB

\* C6: to / ito to a defined target whose dimensionality differs from the
\* receiver's raises ValueError (the registry's DimensionalityError,
\* translated) and leaves the receiver's buffer and unit as they were, in
\* copy mode and in place.
MismatchedConversionRejected ==
    (/\ last.op \in {"to", "ito"}
     /\ IsDefined(last.x.ustr)
     /\ Dimensionality(Parse(last.x.ustr)) # Dimensionality(last.preA.units))
    => /\ last.out = "ValueError"
       /\ last.res = NoArr
       /\ a = last.preA

\* An in-place conversion of a converted receiver to a unit of another
\* dimensionality has been rejected.
InPlaceConversionRejected ==
    /\ last.op = "ito"
    /\ last.out = "ValueError"
    /\ nInplace >= 1
    /\ Dimensionality(Parse(last.x.ustr)) # Dimensionality(last.preA.units)
    /\ a = last.preA

\* C7: to / ito to an undefined unit raises ValueError, not the registry's
\* UndefinedUnitError.
UndefinedTargetIsValueError ==
    (last.op \in {"to", "ito"} /\ ~IsDefined(last.x.ustr))
    => last.out = "ValueError"

\* C8: a comparison of two arrays of equal dimensionality returns (the
\* buffers compared directly for identical units, after reduction to root
\* units otherwise) and one of arrays of different dimensionality raises
\* DimensionalityError; a comparison with a plain number returns for a
\* dimensionless array and raises ValueError otherwise.
ComparisonDecides ==
    (last.op = "compare")
    => IF last.x.kind = "num"
       THEN IF IsDimensionless(last.preA) THEN last.out = "ok"
            ELSE last.out = "ValueError"
       ELSE IF Dimensionality(last.preA.units)
               = Dimensionality(LastOperand.units)
       THEN last.out = "ok"
       ELSE last.out = "DimensionalityError"

\* C9: +, -, += and -= on two arrays of different dimensionality raise
\* DimensionalityError before any offset or delta rule, conversion or numeric
\* operation: nothing is returned and neither operand changes.
DimensionCheckFirst ==
    (/\ last.op \in {"__add__", "__sub__", "__iadd__", "__isub__"}
     /\ last.x.kind \in {"a", "b"}
     /\ Dimensionality(last.preA.units) # Dimensionality(LastOperand.units))
    => /\ last.out = "DimensionalityError"
       /\ last.res = NoArr
       /\ a = last.preA
       /\ b = last.preB

\* A -= of an offset-unit receiver and an array of another dimensionality
\* has raised DimensionalityError.
OffsetReceiverMismatch ==
    /\ last.op = "__isub__"
    /\ last.x.kind = "b"
    /\ NonMul(last.preA.units) # {}
    /\ Dimensionality(last.preA.units) # Dimensionality(last.preB.units)
    /\ last.out = "DimensionalityError"

\* C10: number / array never enters __rtruediv__ on the receiver a second
\* time: the call returns or raises from its first frame.
ReflectedDivisionNoReentry ==
    call.fn = "rtruediv" => call.depth <= 1
====
